---- MODULE Spec2Model ----
(***************************************************************************)
(* switchbotmeter: the advertisement decoder (Device.set_service_data),    *)
(* the device classifier (Device.__init__, set_mac, __bool__) and the scan *)
(* iterator (DevScanner.__init__, __next__), modelled from                 *)
(* src/switchbotmeter/__init__.py.                                         *)
(*                                                                         *)
(* Python values are modelled as follows.  A str is a TLA+ string, a bytes *)
(* object a sequence of 0..255, None the value None, the empty dict {}     *)
(* the value EmptyDict and a populated dict a record.  A float temperature *)
(* is an integer number of hundredths of a degree (every value the code    *)
(* computes is a whole number of hundredths; binary rounding of the float  *)
(* is outside the model).  A call that raises is a result whose exc field  *)
(* names the exception.                                                    *)
(***************************************************************************)
EXTENDS Integers, Sequences, FiniteSets, TLC

VARIABLES
    device,     \* DevScanner.__init__'s `device` argument
    wait_time,  \* DevScanner.wait_time
    iface,      \* the interface the bluepy Scanner was built on
    cycles,     \* calls of DevScanner.__next__ so far
    scans,      \* calls of Scanner.scan so far
    scan_arg,   \* the timeout the last Scanner.scan call was given
    res,        \* `res` of the last __next__: the batch of scan entries
    pos,        \* entries of res the generator (Device(d) for d in res) consumed
    out,        \* Devices the filter object yielded to the caller, in order
    pc,         \* state of the returned iterator
    raw,        \* the scan entry handed to Device.__init__
    self,       \* the Device under construction: [mac, data]
    idx,        \* records of getScanData() the __init__ loop has handled
    ret,        \* what the last handler call did: "none", "set", "return", "raise"
    dpc         \* where the Device is: "init", "built", "kept", "dropped", "raised"

vars == <<device, wait_time, iface, cycles, scans, scan_arg, res, pos, out, pc,
          raw, self, idx, ret, dpc>>
scannerVars == <<device, wait_time, iface, cycles, scans, scan_arg, res, pos, out, pc>>
deviceVars == <<raw, self, idx, ret, dpc>>

(***************************************************************************)
(* Program constants                                                       *)
(***************************************************************************)
SERVICE_UUID == "cba20d00-224d-11e6-9fb8-0002a5d5c51b"
ServiceDataLen == 16
None == "None"
EmptyDict == <<>>
Now == "datetime.now()"

(***************************************************************************)
(* Bit and hex helpers                                                     *)
(***************************************************************************)
RECURSIVE BitAnd(_, _)
BitAnd(a, b) ==
    IF a = 0 \/ b = 0 THEN 0
    ELSE (IF a % 2 = 1 /\ b % 2 = 1 THEN 1 ELSE 0) + 2 * BitAnd(a \div 2, b \div 2)

HexDigits == <<"0", "1", "2", "3", "4", "5", "6", "7",
               "8", "9", "a", "b", "c", "d", "e", "f">>
UpperHexDigits == <<"0", "1", "2", "3", "4", "5", "6", "7",
                    "8", "9", "A", "B", "C", "D", "E", "F">>

CharAt(s, i) == SubSeq(s, i, i)

IsHexDigit(c) == \E d \in 1..16 : HexDigits[d] = c \/ UpperHexDigits[d] = c

HexDigitValue(c) ==
    (CHOOSE d \in 1..16 : HexDigits[d] = c \/ UpperHexDigits[d] = c) - 1

\* bytes.hex(): two lowercase hex digits per byte
RECURSIVE BytesHex(_)
BytesHex(bs) ==
    IF bs = <<>> THEN ""
    ELSE HexDigits[(Head(bs) \div 16) + 1] \o HexDigits[(Head(bs) % 16) + 1]
         \o BytesHex(Tail(bs))

\* binascii.unhexlify(str): an odd number of characters or a character that is
\* no hex digit raises binascii.Error
unhexlify(value) ==
    IF Len(value) % 2 # 0
       \/ \E i \in 1..Len(value) : ~IsHexDigit(CharAt(value, i))
    THEN [exc |-> "binascii.Error", bytes |-> <<>>]
    ELSE [exc |-> "none",
          bytes |-> [i \in 1..(Len(value) \div 2) |->
                        16 * HexDigitValue(CharAt(value, 2 * i - 1))
                        + HexDigitValue(CharAt(value, 2 * i))]]

\* bytes.fromhex(str), on the strings that reach it: set_service_data calls it
\* after unhexlify accepted the same string, so on hex digits alone, where the
\* two decode alike
fromhex(value) == unhexlify(value).bytes

\* bytes.decode() of a one-byte slice (UTF-8): a byte above 0x7F is no valid
\* one-byte sequence and raises UnicodeDecodeError; otherwise the result is the
\* character with that code point, kept here as its code point
DecodeByte(b) ==
    IF b >= 128 THEN [exc |-> "UnicodeDecodeError", chr |-> -1]
    ELSE [exc |-> "none", chr |-> b]

(***************************************************************************)
(* Device handlers.  Each takes the Device (self), the scan entry it was   *)
(* built from (dev) and the record's value, and returns the Device after   *)
(* the call with exc naming the exception raised, if any, and ret saying   *)
(* how the call ended.                                                     *)
(***************************************************************************)
\* Device.set_mac
set_mac_names_only(slf, dev, value) ==
    IF value \in {"WoHand", "WoMeter"}
    THEN [self |-> [slf EXCEPT !.mac = dev.addr], exc |-> "none", ret |-> "set"]
    ELSE [self |-> slf, exc |-> "none", ret |-> "return"]
set_mac(slf, dev, value) ==
    IF value \in {"WoHand", "WoMeter", SERVICE_UUID}
    THEN [self |-> [slf EXCEPT !.mac = dev.addr], exc |-> "none", ret |-> "set"]
    ELSE [self |-> slf, exc |-> "none", ret |-> "return"]

\* temperature of set_service_data, in hundredths of a degree (lines 102-106)
Temperature_sign_swapped(value) ==
    LET absolute == 100 * BitAnd(value[7], 127) + 10 * BitAnd(value[6], 15)
    IN  IF BitAnd(value[7], 128) # 0 THEN -absolute ELSE absolute
Temperature(value) ==
    LET absolute == 100 * BitAnd(value[7], 127) + 10 * BitAnd(value[6], 15)
    IN  IF BitAnd(value[7], 128) = 0 THEN -absolute ELSE absolute

\* "C" or "F" (lines 107-110)
TempScale(value) == IF BitAnd(value[8], 128) = 0 THEN "C" ELSE "F"

\* temperature * 1.8 + 32 in hundredths (line 111)
ToFahrenheit(t) == (t * 18) \div 10 + 3200

\* humidity as stored (line 119): the byte of hexv itself
Humidity_masked(hexv) == BitAnd(hexv[8], 127)
Humidity(hexv) == hexv[8]

\* the length check of set_service_data (line 98): len() of the str it is given
LengthRejected_shorter(value) == Len(value) < ServiceDataLen
LengthRejected(value) == Len(value) # ServiceDataLen

\* the early return of set_service_data (line 99): the Device is left as it was
Rejected_cleared(slf) ==
    [self |-> [slf EXCEPT !.data = EmptyDict], exc |-> "none", ret |-> "return"]
Rejected(slf) == [self |-> slf, exc |-> "none", ret |-> "return"]

\* Device.set_service_data.  Python indexes bytes from 0, a TLA+ sequence from 1.
set_service_data(slf, dev, value) ==
    IF LengthRejected(value)
    THEN Rejected(slf)
    ELSE LET h == unhexlify(value) IN
         IF h.exc # "none"
         THEN [self |-> slf, exc |-> h.exc, ret |-> "raise"]
         ELSE LET hexv == h.bytes
                  v == fromhex(value)
                  scale == TempScale(v)
                  t == Temperature(v)
                  model == DecodeByte(hexv[3])
              IN  IF model.exc # "none"
                  THEN [self |-> slf, exc |-> model.exc, ret |-> "raise"]
                  ELSE [self |-> [slf EXCEPT !.data =
                                    [model |-> model.chr,
                                     mode |-> BytesHex(SubSeq(hexv, 4, 4)),
                                     date |-> Now,
                                     temp |-> IF scale = "F" THEN ToFahrenheit(t) ELSE t,
                                     temp_scale |-> scale,
                                     humidity |-> Humidity(hexv)]],
                        exc |-> "none", ret |-> "set"]

\* the default of actions.get(key, lambda x: {})
NoAction(slf, dev, value) == [self |-> slf, exc |-> "none", ret |-> "return"]

\* the `actions` table of Device.__init__: the handler a field name selects
Dispatch(key, slf, dev, value) ==
    CASE key = "16b Service Data" -> set_service_data(slf, dev, value)
      [] key = "Local name" -> set_mac(slf, dev, value)
      [] key = "Complete 128b Services" -> set_mac(slf, dev, value)
      [] OTHER -> NoAction(slf, dev, value)

\* Device.__init__ before its loop
NewDevice == [mac |-> None, data |-> EmptyDict]

\* Device.__bool__
Bool_either(slf) == (slf.mac # None /\ slf.mac # "") \/ slf.data # EmptyDict
Bool(slf) == slf.mac # None /\ slf.mac # "" /\ slf.data # EmptyDict

\* Device.__init__ as a whole: the loop over getScanData(), stopped by the
\* first handler that raises
RECURSIVE InitLoop(_, _, _)
InitLoop(slf, dev, i) ==
    IF i > Len(dev.scanData) THEN [self |-> slf, exc |-> "none"]
    ELSE LET r == Dispatch(dev.scanData[i][2], slf, dev, dev.scanData[i][3])
         IN  IF r.exc # "none" THEN [self |-> r.self, exc |-> r.exc]
             ELSE InitLoop(r.self, dev, i + 1)

DeviceInit(dev) == InitLoop(NewDevice, dev, 1)

(***************************************************************************)
(* Inputs: what the scan stack can hand over                               *)
(***************************************************************************)
MaxRecords == 3     \* records per scan entry (device specification)
MaxBatch == 2       \* scan entries per batch
MaxCycles == 2      \* calls of __next__

\* the hex text bluepy gives for a service-data record of these bytes
Payload(b2, b3, b5, b6, b7) == BytesHex(<<0, 13, b2, b3, 100, b5, b6, b7>>)

ModelBytes == {0, 84, 127, 128, 255}
ModeBytes == {0, 16, 171}
TenthsBytes == {0, 3, 15, 201}
DegreeBytes == {0, 5, 127, 128, 133, 255}
HumidityBytes == {0, 50, 127, 128, 178, 255}

\* service-data texts of 16 characters that are hex throughout
HexPayloads ==
    {Payload(b2, b3, b5, b6, b7) :
        b2 \in ModelBytes, b3 \in ModeBytes, b5 \in TenthsBytes,
        b6 \in DegreeBytes, b7 \in HumidityBytes}
    \cup {"000D5410640385B2"}

GoodPayload == Payload(84, 16, 3, 133, 50)       \* T, +5.3 C, 50 %
OtherPayload == Payload(84, 0, 15, 5, 178)       \* T, -6.5 C as F, raw 178
BadModelPayload == Payload(128, 16, 3, 133, 50)  \* model byte 0x80
ShortPayload == "000d5410640385"                 \* 14 characters, 7 bytes
LongPayload == GoodPayload \o GoodPayload        \* 32 characters, 16 bytes
NonHexPayload == "000d54106403zz32"              \* 16 characters, not hex
NonHexShort == "zz0d54"                          \* not hex, 6 characters

\* service-data texts of other lengths, or not hex
OddPayloads ==
    {"", "0", ShortPayload, "000d5410640385b", "000d5410640385b20", "000d5410640385b2ff",
     LongPayload, NonHexPayload, NonHexShort, "WoMeter", "0123456789abcdeg", SERVICE_UUID}

OTHER_UUID == "0000fd3d-0000-1000-8000-00805f9b34fb"

\* the records multi-record scan entries are made of: <<type code, name, value>>
RecordPool ==
    {<<9, "Local name", "WoMeter">>,
     <<9, "Local name", "WoHand">>,
     <<9, "Local name", SERVICE_UUID>>,
     <<9, "Local name", "WoSensorTH">>,
     <<7, "Complete 128b Services", SERVICE_UUID>>,
     <<7, "Complete 128b Services", "WoMeter">>,
     <<7, "Complete 128b Services", OTHER_UUID>>,
     <<255, "Manufacturer", "WoMeter">>,
     <<255, "Manufacturer", GoodPayload>>,
     <<22, "16b Service Data", GoodPayload>>,
     <<22, "16b Service Data", OtherPayload>>,
     <<22, "16b Service Data", ShortPayload>>,
     <<22, "16b Service Data", LongPayload>>,
     <<22, "16b Service Data", NonHexPayload>>,
     <<22, "16b Service Data", BadModelPayload>>}

SeqsUpTo(S, n) == UNION {[1..k -> S] : k \in 0..n}

Addr1 == "c0:ff:ee:00:00:01"
Addr2 == "c0:ff:ee:00:00:02"
Addr3 == "c0:ff:ee:00:00:03"
Addrs == <<Addr1, Addr2, Addr3, "c0:ff:ee:00:00:04">>

\* scan entries of the device specification: every record sequence up to
\* MaxRecords over RecordPool, and every single service-data text
ScanEntries ==
    {[addr |-> Addr1, scanData |-> sd] : sd \in SeqsUpTo(RecordPool, MaxRecords)}
    \cup {[addr |-> Addr1, scanData |-> <<<<22, "16b Service Data", v>>>>] :
            v \in HexPayloads \cup OddPayloads}

(***************************************************************************)
(* Device specification: one Device built record by record, then tested    *)
(* by filter(None, ...)                                                    *)
(***************************************************************************)
ScannerIdle ==
    /\ device = "hci0" /\ wait_time = 5 /\ iface = "hci0"
    /\ cycles = 0 /\ scans = 0 /\ scan_arg = None
    /\ res = <<>> /\ pos = 0 /\ out = <<>> /\ pc = "none"

\* Device.__init__, lines 60-62, on some scan entry
DevInit ==
    /\ ScannerIdle
    /\ raw \in ScanEntries
    /\ self = NewDevice
    /\ idx = 0
    /\ ret = "none"
    /\ dpc = "init"

\* one turn of the loop of Device.__init__ (lines 68-70), r being what the
\* handler called on the record's value did
LoopTurn(r) ==
    /\ self' = r.self
    /\ ret' = r.ret
    /\ idx' = idx + 1
    /\ dpc' = IF r.exc = "none" THEN "init" ELSE "raised"
    /\ UNCHANGED <<raw, scannerVars>>

InLoop == dpc = "init" /\ idx < Len(raw.scanData)
NextKey == raw.scanData[idx + 1][2]
NextValue == raw.scanData[idx + 1][3]

CallSetServiceData ==
    /\ InLoop
    /\ NextKey = "16b Service Data"
    /\ LoopTurn(set_service_data(self, raw, NextValue))

CallSetMac ==
    /\ InLoop
    /\ NextKey \in {"Local name", "Complete 128b Services"}
    /\ LoopTurn(set_mac(self, raw, NextValue))

CallNoAction ==
    /\ InLoop
    /\ NextKey \notin {"16b Service Data", "Local name", "Complete 128b Services"}
    /\ LoopTurn(NoAction(self, raw, NextValue))

\* the loop ends: Device(d) is built
Built ==
    /\ dpc = "init"
    /\ idx = Len(raw.scanData)
    /\ dpc' = "built"
    /\ UNCHANGED <<raw, self, idx, ret, scannerVars>>

\* filter(None, ...) asks the Device for its truth value
TruthTest ==
    /\ dpc = "built"
    /\ dpc' = IF Bool(self) THEN "kept" ELSE "dropped"
    /\ UNCHANGED <<raw, self, idx, ret, scannerVars>>

DevNext == CallSetServiceData \/ CallSetMac \/ CallNoAction \/ Built \/ TruthTest

DevSpec == DevInit /\ [][DevNext]_vars

(***************************************************************************)
(* Scanner specification: DevScanner built, then __next__ called and the   *)
(* iterators it returns consumed                                           *)
(***************************************************************************)
HciDevices == {"hci0", "hci1"}
WaitArgs == {5, 25, 50}        \* the `wait` argument, in tenths of a second

\* int(wait) on a non-negative number given in tenths: truncation
IntOf(w) == w \div 10

\* Scanner() at line 23 is built with no argument: bluepy's default interface
DefaultIface == "hci0"

\* the getScanData() of the scan entries batches are made of
ScanDataPool ==
    {<<>>,
     <<<<9, "Local name", "WoMeter">>, <<22, "16b Service Data", GoodPayload>>>>,
     <<<<22, "16b Service Data", OtherPayload>>, <<7, "Complete 128b Services", SERVICE_UUID>>>>,
     <<<<9, "Local name", "WoMeter">>>>,
     <<<<22, "16b Service Data", GoodPayload>>>>,
     <<<<9, "Local name", "WoMeter">>, <<22, "16b Service Data", NonHexPayload>>>>,
     <<<<9, "Local name", "WoMeter">>, <<22, "16b Service Data", ShortPayload>>>>,
     <<<<9, "Local name", "WoHand">>, <<22, "16b Service Data", BadModelPayload>>>>}

BatchAddrs == {Addr1, Addr2, Addr3}

\* what Scanner.scan can return: up to MaxBatch entries with distinct addresses
Batches ==
    UNION {{[i \in 1..k |-> [addr |-> a[i], scanData |-> sd[i]]] :
               a \in {f \in [1..k -> BatchAddrs] : \A i, j \in 1..k : f[i] = f[j] => i = j},
               sd \in [1..k -> ScanDataPool]} : k \in 0..MaxBatch}

DeviceIdle ==
    /\ raw = [addr |-> Addr1, scanData |-> <<>>] /\ self = NewDevice
    /\ idx = 0 /\ ret = "none" /\ dpc = "none"

\* DevScanner.__init__(device, wait)
Init ==
    /\ DeviceIdle
    /\ device \in HciDevices
    /\ \E wait \in WaitArgs : wait_time = IntOf(wait)
    /\ iface = DefaultIface
    /\ cycles = 0 /\ scans = 0 /\ scan_arg = None
    /\ res = <<>> /\ pos = 0 /\ out = <<>> /\ pc = "none"

\* DevScanner.__next__: one blocking scan, then a fresh lazy filter object
\* over a fresh generator; nothing is classified yet
DevScannerNext ==
    /\ cycles < MaxCycles
    /\ cycles' = cycles + 1
    /\ scans' = scans + 1
    /\ scan_arg' = wait_time
    /\ \E batch \in Batches : res' = batch
    /\ pos' = 0
    /\ out' = <<>>
    /\ pc' = "iterating"
    /\ UNCHANGED <<device, wait_time, iface, deviceVars>>

Consuming == pc = "iterating" /\ pos < Len(res)

\* the generator builds Device(res[pos + 1]) and filter yields it: it is truthy
GenYield ==
    /\ Consuming
    /\ LET d == DeviceInit(res[pos + 1]) IN
       /\ d.exc = "none"
       /\ Bool(d.self)
       /\ out' = Append(out, d.self)
    /\ pos' = pos + 1
    /\ UNCHANGED <<device, wait_time, iface, cycles, scans, scan_arg, res, pc, deviceVars>>

\* the generator builds Device(res[pos + 1]) and filter drops it: it is falsy
GenDrop ==
    /\ Consuming
    /\ LET d == DeviceInit(res[pos + 1]) IN
       /\ d.exc = "none"
       /\ ~Bool(d.self)
    /\ pos' = pos + 1
    /\ UNCHANGED <<device, wait_time, iface, cycles, scans, scan_arg, res, out, pc, deviceVars>>

\* Device(res[pos + 1]) raises: the exception leaves the generator, which is
\* finished by it, passes through filter and reaches the caller's next()
GenRaise ==
    /\ Consuming
    /\ DeviceInit(res[pos + 1]).exc # "none"
    /\ pos' = pos + 1
    /\ pc' = "raised"
    /\ UNCHANGED <<device, wait_time, iface, cycles, scans, scan_arg, res, out, deviceVars>>

\* the generator is exhausted: StopIteration ends the caller's loop
GenStop ==
    /\ pc = "iterating"
    /\ pos = Len(res)
    /\ pc' = "exhausted"
    /\ UNCHANGED <<device, wait_time, iface, cycles, scans, scan_arg, res, pos, out, deviceVars>>

Next == DevScannerNext \/ GenYield \/ GenDrop \/ GenRaise \/ GenStop

Spec == Init /\ [][Next]_vars

(***************************************************************************)
(* Properties of the device specification (DevSpec)                        *)
(***************************************************************************)
ServiceDataKey == "16b Service Data"
MacKeys == {"Local name", "Complete 128b Services"}
Markers == {"WoHand", "WoMeter", SERVICE_UUID}

Constructed == dpc \in {"built", "kept", "dropped"}

\* the record the loop handled last
LastKey == raw.scanData[idx][2]
LastValue == raw.scanData[idx][3]
LastWasServiceData == idx > 0 /\ LastKey = ServiceDataKey

\* the bytes a hex text stands for, and whether it stands for any
IsHexText(v) == unhexlify(v).exc = "none"
BytesOf(v) == unhexlify(v).bytes

\* the reading a service-data text gives on its own, if it gives one
GivesReading(v) == set_service_data(NewDevice, raw, v).ret = "set"
ReadingOf(v) == set_service_data(NewDevice, raw, v).self.data

\* positions among the first n records holding a service-data record
ServiceDataAt(n) == {i \in 1..n : raw.scanData[i][2] = ServiceDataKey}
AcceptedAt(n) == {i \in ServiceDataAt(n) : GivesReading(raw.scanData[i][3])}
Last(S) == CHOOSE i \in S : \A j \in S : j <= i

\* C2 as stated: a reading is produced only from a payload that is 16 bytes
\* long after hex decoding, and a payload of any other decoded length gives
\* no reading.
C2_ReadingOnlyFromSixteenBytes ==
    (LastWasServiceData /\ IsHexText(LastValue)) =>
        /\ ret = "set" => Len(BytesOf(LastValue)) = 16
        /\ Len(BytesOf(LastValue)) # 16 => ret # "set"

\* C2 amended: a reading is produced only from a service-data text of exactly
\* 16 characters, which is 8 bytes after hex decoding; a text of any other
\* length (the 32 characters of a 16-byte payload included) is rejected:
\* set_service_data returns and the Device's data stays as it was.
C2_ReadingOnlyFromSixteenChars ==
    LastWasServiceData =>
        /\ ret = "set" => (Len(LastValue) = 16 /\ Len(BytesOf(LastValue)) = 8)
        /\ Len(LastValue) # 16 =>
              /\ ret = "return"
              /\ dpc # "raised"
              /\ idx = 1 => self = NewDevice

C2_Witness ==
    /\ LastWasServiceData
    /\ ret = "set"
    /\ Len(LastValue) = 16
    /\ Len(BytesOf(LastValue)) = 8
    /\ self.data # EmptyDict

\* C4 as stated: every payload that passes the length check decodes to a
\* reading whatever its byte values are; no byte value makes the decoder raise.
C4_DecodeNeverRaises ==
    (LastWasServiceData /\ Len(LastValue) = 16 /\ IsHexText(LastValue)) =>
        (ret = "set" /\ dpc # "raised")

\* C9: the temperature of an accepted payload has magnitude
\* (byte[6] & 0x7F) + (byte[5] & 0x0F)/10, is negated exactly when bit 7 of
\* byte[6] is 0, is in Fahrenheit exactly when bit 7 of byte[7] is set, and
\* is then signed*1.8+32; byte[6]=0x85, low nibble 3, byte[7]=0x32 is +5.3 C.
\* (Python's byte[k] is b[k + 1]; temp is in hundredths, signed in tenths.)
C9_TemperatureRule ==
    (LastWasServiceData /\ ret = "set") =>
        LET b == BytesOf(LastValue)
            magnitude == 10 * (b[7] % 128) + (b[6] % 16)
            signed == IF b[7] \div 128 = 0 THEN -magnitude ELSE magnitude
        IN  /\ self.data.temp_scale = (IF b[8] \div 128 = 1 THEN "F" ELSE "C")
            /\ self.data.temp_scale = "C" => self.data.temp = 10 * signed
            /\ self.data.temp_scale = "F" => self.data.temp = 18 * signed + 3200
            /\ (b[7] = 133 /\ b[6] % 16 = 3 /\ b[8] = 50) =>
                  (self.data.temp = 530 /\ self.data.temp_scale = "C")

C9_Witness ==
    /\ LastWasServiceData
    /\ ret = "set"
    /\ BytesOf(LastValue)[7] = 5
    /\ BytesOf(LastValue)[6] = 15
    /\ self.data.temp_scale = "F"
    /\ self.data.temp = 2030

C7_RoutingPerFieldName ==
    self.mac # None <=>
        \E i \in 1..idx :
            \/ raw.scanData[i][2] = "Local name"
               /\ raw.scanData[i][3] \in {"WoHand", "WoMeter"}
            \/ raw.scanData[i][2] = "Complete 128b Services"
               /\ raw.scanData[i][3] = SERVICE_UUID

\* C7 amended: "Local name" and "Complete 128b Services" records share one
\* check: either sets mac to the hardware address when its value is any of
\* "WoHand", "WoMeter" or the service UUID, whichever of the two field names
\* carries it; records with any other field name never set mac.
C7_RoutingSharedMarkers ==
    /\ self.mac \in {None, raw.addr}
    /\ self.mac = raw.addr <=>
          \E i \in 1..idx : /\ raw.scanData[i][2] \in MacKeys
                            /\ raw.scanData[i][3] \in Markers

C7_Witness ==
    /\ Constructed
    /\ self.mac = raw.addr
    /\ \E i \in 1..idx : raw.scanData[i][2] = "Complete 128b Services"
                         /\ raw.scanData[i][3] = "WoMeter"
    /\ \A i \in 1..idx : raw.scanData[i][2] \in MacKeys => raw.scanData[i][3] = "WoMeter"
    /\ \E i \in 1..idx : raw.scanData[i][2] \notin MacKeys /\ raw.scanData[i][3] \in Markers

\* C8 as stated: with several service-data records the last one wins: data is
\* that record's reading if it decodes and is absent if it is rejected,
\* whatever the earlier records held.
C8_LastServiceDataWins ==
    (Constructed /\ ServiceDataAt(idx) # {}) =>
        LET v == raw.scanData[Last(ServiceDataAt(idx))][3] IN
        self.data = IF GivesReading(v) THEN ReadingOf(v) ELSE EmptyDict

\* C8 amended: the last accepted one wins: data is the reading of the last
\* service-data record that was decoded into a reading; a rejected record
\* leaves data as it was, so data is absent only when no service-data record
\* has given a reading.
C8_LastAcceptedServiceDataWins ==
    self.data = IF AcceptedAt(idx) = {} THEN EmptyDict
                ELSE ReadingOf(raw.scanData[Last(AcceptedAt(idx))][3])

C8_Witness ==
    /\ Constructed
    /\ Cardinality(ServiceDataAt(idx)) >= 2
    /\ AcceptedAt(idx) # {}
    /\ Last(ServiceDataAt(idx)) \notin AcceptedAt(idx)
    /\ self.data # EmptyDict
    /\ self.data = ReadingOf(raw.scanData[Last(AcceptedAt(idx))][3])

\* C1: the Device is truthy (kept by the filter) exactly when its mac is set
\* and its data is present; a device with a marker but no decoded service
\* data is falsy, and so is one with decoded service data but no marker or
\* service UUID in any record.
C1_ValidIffMacAndData ==
    dpc \in {"kept", "dropped"} =>
        /\ dpc = "kept" <=> (self.mac # None /\ self.data # EmptyDict)
        /\ AcceptedAt(Len(raw.scanData)) = {} => dpc = "dropped"
        /\ (\A i \in 1..Len(raw.scanData) : raw.scanData[i][3] \notin Markers)
              => dpc = "dropped"

C1_Witness ==
    /\ dpc = "dropped"
    /\ self.mac = None
    /\ self.data # EmptyDict
    /\ AcceptedAt(Len(raw.scanData)) # {}

(***************************************************************************)
(* Properties of the scanner specification (Spec)                          *)
(***************************************************************************)
\* a scan entry with a service-data record whose value is not hex text
HasMalformedHex(d) ==
    \E i \in 1..Len(d.scanData) :
        /\ d.scanData[i][2] = ServiceDataKey
        /\ ~IsHexText(d.scanData[i][3])

\* the truthy Devices of a batch, in batch order
RECURSIVE ValidDevices(_)
ValidDevices(batch) ==
    IF batch = <<>> THEN <<>>
    ELSE LET d == DeviceInit(Head(batch)) IN
         (IF d.exc = "none" /\ Bool(d.self) THEN <<d.self>> ELSE <<>>)
         \o ValidDevices(Tail(batch))

IterationOver == pc \in {"exhausted", "raised"}

\* C3 as stated: a service-data value that is not hex is handled like a length
\* mismatch: the device gets no reading, the other devices of the cycle are
\* still classified, and no exception reaches the caller iterating the cycle.
C3_MalformedHexStaysLocal ==
    \A i \in 1..pos : HasMalformedHex(res[i]) => ~(pc = "raised" /\ i = pos)

\* C5 as stated: each __next__ makes exactly one scan call, with the configured
\* wait, and the sequence it returns holds exactly the valid Devices of that
\* batch in batch order: none invalid, none dropped, none from an earlier cycle.
C5_CycleYieldsTheValidDevices ==
    /\ scans = cycles
    /\ cycles > 0 => scan_arg = wait_time
    /\ IterationOver => out = ValidDevices(res)

\* C6 as stated: the `device` argument reaches the scan stack unchanged, so
\* the scan runs on the radio the caller named.
C6_RadioPassedThrough == iface = device
====
